---- MODULE Spec2Model ----
(***************************************************************************)
(* Model of the hex lattice engine of src/app.py: the HexGrid object (its  *)
(* packed cell array, neighbor table and serializer cache), the edge swap, *)
(* the cycle extractor and the three request handlers.                     *)
(***************************************************************************)
EXTENDS Integers, Sequences, FiniteSets, TLC

VARIABLES
    size,            \* HexGrid.size
    cells_array,     \* HexGrid.cells_array : <<c, r>> -> uint8 door mask
    neighbor_table,  \* HexGrid.neighbor_table : <<c, r>> -> (dir -> <<c', r'>>)
    dict_dirty,      \* HexGrid._dict_dirty
    cached_dict,     \* HexGrid._cached_dict (None or the last dump built)
    sc,              \* locals of the running HexGrid.scramble call
    last,            \* the last call made on the grid and what it returned
    nswaps,          \* successful swaps since the lattice was (re)built
    th,              \* the request threads of the transport (SpecThreads)
    grid_dict        \* the second HexGrid of validate_array_backend.py, run with
                     \* _use_array = False (SpecBackends); none in app.py

vars == <<size, cells_array, neighbor_table, dict_dirty, cached_dict,
          sc, last, nswaps, th, grid_dict>>

-----------------------------------------------------------------------------
(* Bounds of the model *)

\* largest lattice size modelled; stands for the upper clamp of the reset route
MaxSize == 6
\* requests are explored on lattices fewer than MaxSwaps successful swaps
\* away from their last (re)build
MaxSwaps == 2
\* largest steps argument given to scramble
MaxSteps == 1
\* random columns are drawn from 0..SampleSpan-1 and size-1 (random rows
\* from 0 and size-1): the cells next to the wrap of the torus
SampleSpan == 1

-----------------------------------------------------------------------------
(* Program constants *)

MinSize == 5
AttemptFactor == 20
None == "None"
\* _cached_dict is a list of no dump (None) or of the one dump held
NoDict == <<>>

EVEN_COL_DIRS ==
    << <<0, -1>>, <<1, -1>>, <<1, 0>>, <<0, 1>>, <<-1, 0>>, <<-1, -1>> >>

\* odd columns given the offsets of the even columns
ODD_COL_DIRS_unshifted ==
    << <<0, -1>>, <<1, -1>>, <<1, 0>>, <<0, 1>>, <<-1, 0>>, <<-1, -1>> >>

ODD_COL_DIRS ==
    << <<0, -1>>, <<1, 0>>, <<1, 1>>, <<0, 1>>, <<-1, 1>>, <<-1, 0>> >>

Dirs == 0..5

Opp(d) == (d + 3) % 6

Sizes == MinSize..MaxSize

Cells(n) == (0..(n - 1)) \X (0..(n - 1))

-----------------------------------------------------------------------------
(* uint8 bit flags *)

Shl1(d) == 2 ^ d

TestBit(m, d) == (m \div Shl1(d)) % 2 = 1

\* m | (1 << d)
OrBit(m, d) == IF TestBit(m, d) THEN m ELSE m + Shl1(d)

\* m & np.uint8(0xFF ^ (1 << d))
AndNotBit(m, d) == IF TestBit(m, d) THEN m - Shl1(d) ELSE m

PopCount(m) == Cardinality({d \in 0..7 : TestBit(m, d)})

\* ((k % size) + size) % size
Wrap(k, n) == ((k % n) + n) % n

-----------------------------------------------------------------------------
(* Neighbor table *)

\* a table whose coordinates stop at the border instead of wrapping
InitNeighborTable_clamped(n) ==
    [cell \in Cells(n) |->
        [d \in Dirs |->
            LET dirs == IF cell[1] % 2 = 0 THEN EVEN_COL_DIRS ELSE ODD_COL_DIRS
                nc == cell[1] + dirs[d + 1][1]
                nr == cell[2] + dirs[d + 1][2]
                Stop(k) == IF k < 0 THEN 0 ELSE IF k > n - 1 THEN n - 1 ELSE k
            IN  <<Stop(nc), Stop(nr)>>]]

InitNeighborTable(n) ==
    [cell \in Cells(n) |->
        [d \in Dirs |->
            LET dirs == IF cell[1] % 2 = 0 THEN EVEN_COL_DIRS ELSE ODD_COL_DIRS
                nc == cell[1] + dirs[d + 1][1]
                nr == cell[2] + dirs[d + 1][2]
            IN  <<Wrap(nc, n), Wrap(nr, n)>>]]

\* numpy index of one axis of length dim: negative indices count from the
\* end, anything else outside the axis raises IndexError (-1 here)
NpIndex(k, dim) ==
    IF k >= 0 /\ k < dim THEN k
    ELSE IF k < 0 /\ k >= -dim THEN k + dim
    ELSE -1

\* get_neighbor_coords(c, r, dir_idx) on in-range coordinates
get_neighbor_coords(tbl, c, r, d) == tbl[<<c, r>>][d]

\* get_direction: the first of the six directions of (c1, r1) whose neighbor
\* is (c2, r2), or -1
get_direction(tbl, c1, r1, c2, r2) ==
    LET RECURSIVE scan(_)
        scan(i) == IF i > 5 THEN -1
                   ELSE IF get_neighbor_coords(tbl, c1, r1, i) = <<c2, r2>> THEN i
                   ELSE scan(i + 1)
    IN scan(0)

-----------------------------------------------------------------------------
(* Pattern seeder *)

init_vertical(n) == [cell \in Cells(n) |-> Shl1(0) + Shl1(3)]

\* a diagonal seeder that opens the N and S doors instead of NE and SW
init_diagonal_1_north_south(n) ==
    [cell \in Cells(n) |-> Shl1(0) + Shl1(3)]

init_diagonal_1(n) == [cell \in Cells(n) |-> Shl1(1) + Shl1(4)]

init_diagonal_2(n) == [cell \in Cells(n) |-> Shl1(2) + Shl1(5)]

\* the zig-zag seeder without the closing column of odd lattices
init_concentric_open(n) ==
    [cell \in Cells(n) |->
        IF cell[1] % 2 = 0 THEN Shl1(1) + Shl1(5) ELSE Shl1(2) + Shl1(4)]

init_concentric(n) ==
    [cell \in Cells(n) |->
        LET c == cell[1]
            dirs == IF n % 2 # 0 /\ c = n - 1 THEN <<2, 5>>
                    ELSE IF c % 2 = 0 THEN <<1, 5>>
                    ELSE <<2, 4>>
        IN OrBit(Shl1(dirs[1]), dirs[2])]

\* the seeder without its fallback branch: an unknown name leaves the array
\* cleared
reset_to_organized_no_fallback(n, pattern) ==
    IF pattern = "vertical" THEN init_vertical(n)
    ELSE IF pattern = "diagonal_1" THEN init_diagonal_1(n)
    ELSE IF pattern = "diagonal_2" THEN init_diagonal_2(n)
    ELSE IF pattern = "concentric" THEN init_concentric(n)
    ELSE [cell \in Cells(n) |-> 0]

\* the cell array reset_to_organized(pattern) leaves on a lattice of size n
reset_to_organized(n, pattern) ==
    IF pattern = "vertical" THEN init_vertical(n)
    ELSE IF pattern = "diagonal_1" THEN init_diagonal_1(n)
    ELSE IF pattern = "diagonal_2" THEN init_diagonal_2(n)
    ELSE IF pattern = "concentric" THEN init_concentric(n)
    ELSE init_vertical(n)

-----------------------------------------------------------------------------
(* Cell store *)

get_cell_doors(arr, n, c, r) ==
    LET bits == arr[<<Wrap(c, n), Wrap(r, n)>>]
    IN SelectSeq(<<0, 1, 2, 3, 4, 5>>, LAMBDA d : TestBit(bits, d))

has_connection(arr, n, c, r, d) ==
    TestBit(arr[<<Wrap(c, n), Wrap(r, n)>>], d)

\* an add that writes the own bit and not its mate
add_connection_one_sided(arr, tbl, n, c, r, d) ==
    [arr |-> [arr EXCEPT ![<<Wrap(c, n), Wrap(r, n)>>] = OrBit(@, d)],
     raised |-> NpIndex(c, n) = -1 \/ NpIndex(r, n) = -1]

\* _add_connection_array: the own bit is written first; the neighbor lookup
\* indexes the table with the raw coordinates and may raise IndexError, in
\* which case neither the mate bit nor the dirty flag is written
add_connection(arr, tbl, n, c, r, d) ==
    LET own == <<Wrap(c, n), Wrap(r, n)>>
        a1 == [arr EXCEPT ![own] = OrBit(@, d)]
        ic == NpIndex(c, n)
        ir == NpIndex(r, n)
    IN  IF ic = -1 \/ ir = -1
        THEN [arr |-> a1, raised |-> TRUE]
        ELSE [arr |-> [a1 EXCEPT ![tbl[<<ic, ir>>][d]] = OrBit(@, Opp(d))],
              raised |-> FALSE]

\* a remove that clears the own bit and not its mate
remove_connection_one_sided(arr, tbl, n, c, r, d) ==
    [arr |-> [arr EXCEPT ![<<Wrap(c, n), Wrap(r, n)>>] = AndNotBit(@, d)],
     raised |-> NpIndex(c, n) = -1 \/ NpIndex(r, n) = -1]

remove_connection(arr, tbl, n, c, r, d) ==
    LET own == <<Wrap(c, n), Wrap(r, n)>>
        a1 == [arr EXCEPT ![own] = AndNotBit(@, d)]
        ic == NpIndex(c, n)
        ir == NpIndex(r, n)
    IN  IF ic = -1 \/ ir = -1
        THEN [arr |-> a1, raised |-> TRUE]
        ELSE [arr |-> [a1 EXCEPT ![tbl[<<ic, ir>>][d]] = AndNotBit(@, Opp(d))],
              raised |-> FALSE]

-----------------------------------------------------------------------------
(* Edge-swap engine *)

\* the four rewiring calls of a successful swap, in program order
rewire_calls(u, duv, x, dxy, a, da, b, db) ==
    << [f |-> "remove", c |-> u[1], r |-> u[2], d |-> duv],
       [f |-> "remove", c |-> x[1], r |-> x[2], d |-> dxy],
       [f |-> "add", c |-> a[1], r |-> a[2], d |-> da],
       [f |-> "add", c |-> b[1], r |-> b[2], d |-> db] >>

\* one remove_connection or add_connection call
connection_call(arr, tbl, n, call) ==
    IF call.f = "remove" THEN remove_connection(arr, tbl, n, call.c, call.r, call.d)
    ELSE add_connection(arr, tbl, n, call.c, call.r, call.d)

\* the array the calls leave when run one after the other
RECURSIVE rewire(_, _, _, _)
rewire(arr, tbl, n, calls) ==
    IF calls = <<>> THEN arr
    ELSE rewire(connection_call(arr, tbl, n, Head(calls)).arr, tbl, n, Tail(calls))

\* perform_swap_vectorized(cell_coords = <<uc, ur, xc, xr>>, dir_indices = <<i0, i1>>)
\* returns whether it swapped, the cells it sampled, the pairing taken and
\* the rewiring calls it makes
swap_decision(arr, tbl, n, uc, ur, xc, xr, i0, i1) ==
    LET u_doors == get_cell_doors(arr, n, uc, ur)
        x_doors == get_cell_doors(arr, n, xc, xr)
        fail == [ok |-> FALSE, cells |-> <<>>, pairing |-> "none", calls |-> <<>>]
    IN  IF u_doors = <<>> THEN fail
        ELSE IF x_doors = <<>> THEN fail
        ELSE
        LET dir_uv == u_doors[(i0 % Len(u_doors)) + 1]
            v == get_neighbor_coords(tbl, uc, ur, dir_uv)
            dir_xy == x_doors[(i1 % Len(x_doors)) + 1]
            y == get_neighbor_coords(tbl, xc, xr, dir_xy)
            u == <<uc, ur>>
            x == <<xc, xr>>
        IN  IF Cardinality({u, v, x, y}) < 4 THEN fail
            ELSE
            LET dir_ux == get_direction(tbl, uc, ur, xc, xr)
                dir_vy == get_direction(tbl, v[1], v[2], y[1], y[2])
                dir_uy == get_direction(tbl, uc, ur, y[1], y[2])
                dir_vx == get_direction(tbl, v[1], v[2], xc, xr)
            IN  IF /\ dir_ux # -1 /\ dir_vy # -1
                   /\ ~has_connection(arr, n, uc, ur, dir_ux)
                   /\ ~has_connection(arr, n, v[1], v[2], dir_vy)
                THEN [ok |-> TRUE, cells |-> <<u, v, x, y>>, pairing |-> "A",
                      calls |-> rewire_calls(u, dir_uv, x, dir_xy,
                                             u, dir_ux, v, dir_vy)]
                ELSE IF /\ dir_uy # -1 /\ dir_vx # -1
                        /\ ~has_connection(arr, n, uc, ur, dir_uy)
                        /\ ~has_connection(arr, n, v[1], v[2], dir_vx)
                THEN [ok |-> TRUE, cells |-> <<u, v, x, y>>, pairing |-> "B",
                      calls |-> rewire_calls(u, dir_uv, x, dir_xy,
                                             u, dir_uy, v, dir_vx)]
                ELSE fail

\* the whole call: the decision, then its rewiring calls on the array
perform_swap_vectorized(arr, tbl, n, uc, ur, xc, xr, i0, i1) ==
    LET dec == swap_decision(arr, tbl, n, uc, ur, xc, xr, i0, i1)
    IN  [ok |-> dec.ok, arr |-> rewire(arr, tbl, n, dec.calls),
         cells |-> dec.cells, pairing |-> dec.pairing]

-----------------------------------------------------------------------------
(* Cycle extractor *)

\* the doors of a mask in ascending direction index (the doors[] buffer)
DoorsOf(bits) == SelectSeq(<<0, 1, 2, 3, 4, 5>>, LAMBDA d : TestBit(bits, d))

\* the last door of the list that does not lead to prev
NextCell_last(tbl, curr, doors, prev) ==
    LET RECURSIVE pick(_)
        pick(i) ==
            IF i < 1 THEN <<-1, -1>>
            ELSE LET nb == tbl[curr][doors[i]]
                 IN  IF prev[1] >= 0 /\ nb = prev THEN pick(i - 1) ELSE nb
    IN pick(Len(doors))

\* first door of the list that does not lead to prev (prev = <<-1, -1>> at
\* the start of a walk); <<-1, -1>> when there is none
NextCell(tbl, curr, doors, prev) ==
    LET RECURSIVE pick(_)
        pick(i) ==
            IF i > Len(doors) THEN <<-1, -1>>
            ELSE LET nb == tbl[curr][doors[i]]
                 IN  IF prev[1] >= 0 /\ nb = prev THEN pick(i + 1) ELSE nb
    IN pick(1)

\* a walk step that leaves the visited array as it finds it
MarkVisited_skip(visited, curr) == visited

\* visited[curr_c, curr_r] = True
MarkVisited(visited, curr) == visited \cup {curr}

\* the walk from one start cell: the bounded for-loop of _find_loops_numba.
\* Returns the visited set after the walk, the loop kept (<<>> if dropped)
\* and the iterations of the for-loop left when the walk ended (0 when the
\* for-loop ran out without a break)
RECURSIVE Walk(_, _, _, _, _, _, _, _)
Walk(arr, tbl, start, curr, prev, visited, loop, fuel) ==
    IF fuel = 0 THEN [visited |-> visited, loop |-> loop, left |-> 0]
    ELSE IF curr \in visited
    THEN IF curr = start /\ Len(loop) > 0
         THEN [visited |-> visited, loop |-> loop, left |-> fuel]
         ELSE [visited |-> visited, loop |-> <<>>, left |-> fuel]
    ELSE
    LET vis1 == MarkVisited(visited, curr)
        loop1 == Append(loop, curr)
        doors == DoorsOf(arr[curr])
    IN  IF doors = <<>> THEN [visited |-> vis1, loop |-> <<>>, left |-> fuel]
        ELSE LET nxt == NextCell(tbl, curr, doors, prev)
             IN  IF nxt = <<-1, -1>> THEN [visited |-> vis1, loop |-> <<>>, left |-> fuel]
                 ELSE Walk(arr, tbl, start, nxt, curr, vis1, loop1, fuel - 1)

\* _find_loops_numba(cells_array, neighbor_table, size): start cells are
\* scanned column by column, each column row by row
RECURSIVE Scan(_, _, _, _, _, _)
Scan(arr, tbl, n, k, visited, loops) ==
    IF k >= n * n THEN loops
    ELSE LET start == <<k \div n, k % n>>
         IN  IF start \in visited
             THEN Scan(arr, tbl, n, k + 1, visited, loops)
             ELSE LET w == Walk(arr, tbl, start, start, <<-1, -1>>, visited,
                                <<>>, n * n + 1)
                  IN  Scan(arr, tbl, n, k + 1, w.visited,
                           IF Len(w.loop) > 0 THEN Append(loops, w.loop)
                           ELSE loops)

\* the walks of the scan in order, one per start cell found unvisited, each
\* with its start cell
RECURSIVE ScanWalks(_, _, _, _, _, _)
ScanWalks(arr, tbl, n, k, visited, walks) ==
    IF k >= n * n THEN walks
    ELSE LET start == <<k \div n, k % n>>
         IN  IF start \in visited
             THEN ScanWalks(arr, tbl, n, k + 1, visited, walks)
             ELSE LET w == Walk(arr, tbl, start, start, <<-1, -1>>, visited,
                                <<>>, n * n + 1)
                  IN  ScanWalks(arr, tbl, n, k + 1, w.visited,
                                Append(walks, [start |-> start, loop |-> w.loop,
                                               left |-> w.left]))

\* a scan that starts at the first cell of the last column
find_loops_last_column(arr, tbl, n) == Scan(arr, tbl, n, n * n - n, {}, <<>>)

find_loops(arr, tbl, n) == Scan(arr, tbl, n, 0, {}, <<>>)

-----------------------------------------------------------------------------
(* Serializer *)

\* the dump to_dict builds from an array: for every cell of range(size)^2
\* the ascending list of its doors
BuildDict(arr, n) == [cell \in Cells(n) |-> DoorsOf(arr[cell])]

-----------------------------------------------------------------------------
(* Dict backend: the HexGrid methods with _use_array = False. cells_dict   *)
(* maps a cell to a Python list object; ref gives, for every key, the cell *)
(* whose list object it holds (several keys may hold the same object), and *)
(* list gives the contents of the list objects                             *)

\* cells_dict after reset_to_organized(pattern): the vertical and diagonal
\* seeders store a new list per cell, _init_concentric stores one list per
\* column under all keys of the column
dict_reset_to_organized(n, pattern) ==
    LET p == IF pattern \in {"vertical", "diagonal_1", "diagonal_2", "concentric"}
             THEN pattern ELSE "vertical"
        dirs(c) == IF p = "vertical" THEN <<0, 3>>
                   ELSE IF p = "diagonal_1" THEN <<1, 4>>
                   ELSE IF p = "diagonal_2" THEN <<2, 5>>
                   ELSE IF n % 2 # 0 /\ c = n - 1 THEN <<2, 5>>
                   ELSE IF c % 2 = 0 THEN <<1, 5>>
                   ELSE <<2, 4>>
    IN  [ref |-> [cell \in Cells(n) |->
                     IF p = "concentric" THEN <<cell[1], 0>> ELSE cell],
         list |-> [cell \in Cells(n) |-> dirs(cell[1])]]

\* no second grid: app.py builds one HexGrid
NoGrid == <<>>

\* the second grid after HexGrid(size)
NewDictGrid(n) ==
    [cells_dict |-> dict_reset_to_organized(n, "vertical"),
     dirty |-> TRUE, cached |-> NoDict]

\* dir_idx in doors
InList(doors, d) == \E i \in DOMAIN doors : doors[i] = d

\* doors.remove(dir_idx): the list without the first occurrence of d
ListRemove(doors, d) ==
    LET first == CHOOSE i \in DOMAIN doors :
                     doors[i] = d /\ \A j \in 1..(i - 1) : doors[j] # d
    IN  [i \in 1..(Len(doors) - 1) |-> IF i < first THEN doors[i] ELSE doors[i + 1]]

\* get_cell_doors on the dict backend: the list object stored under the
\* wrapped key
dict_get_cell_doors(cd, n, c, r) == cd.list[cd.ref[<<Wrap(c, n), Wrap(r, n)>>]]

dict_has_connection(cd, n, c, r, d) == InList(dict_get_cell_doors(cd, n, c, r), d)

\* add_connection on the dict backend, in-range coordinates: returns
\* cells_dict and whether _dict_dirty was set
dict_add_connection(cd, tbl, n, c, r, d) ==
    LET own == cd.ref[<<Wrap(c, n), Wrap(r, n)>>]
    IN  IF InList(cd.list[own], d) THEN [cells_dict |-> cd, dirtied |-> FALSE]
        ELSE LET cd1 == [cd EXCEPT !.list[own] = Append(@, d)]
                 nb == get_neighbor_coords(tbl, c, r, d)
                 mate == cd1.ref[<<Wrap(nb[1], n), Wrap(nb[2], n)>>]
             IN  [cells_dict |-> IF InList(cd1.list[mate], Opp(d)) THEN cd1
                                 ELSE [cd1 EXCEPT !.list[mate] = Append(@, Opp(d))],
                  dirtied |-> TRUE]

dict_remove_connection(cd, tbl, n, c, r, d) ==
    LET own == cd.ref[<<Wrap(c, n), Wrap(r, n)>>]
    IN  IF ~InList(cd.list[own], d) THEN [cells_dict |-> cd, dirtied |-> FALSE]
        ELSE LET cd1 == [cd EXCEPT !.list[own] = ListRemove(@, d)]
                 nb == get_neighbor_coords(tbl, c, r, d)
                 mate == cd1.ref[<<Wrap(nb[1], n), Wrap(nb[2], n)>>]
             IN  [cells_dict |-> IF InList(cd1.list[mate], Opp(d))
                                 THEN [cd1 EXCEPT !.list[mate] = ListRemove(@, Opp(d))]
                                 ELSE cd1,
                  dirtied |-> TRUE]

\* the rewiring calls of a swap on the dict backend, one after the other
RECURSIVE dict_rewire(_, _, _, _)
dict_rewire(cd, tbl, n, calls) ==
    IF calls = <<>> THEN cd
    ELSE LET call == Head(calls)
             res == IF call.f = "remove"
                    THEN dict_remove_connection(cd, tbl, n, call.c, call.r, call.d)
                    ELSE dict_add_connection(cd, tbl, n, call.c, call.r, call.d)
         IN  dict_rewire(res.cells_dict, tbl, n, Tail(calls))

\* perform_swap_vectorized on the dict backend
dict_perform_swap_vectorized(cd, tbl, n, uc, ur, xc, xr, i0, i1) ==
    LET u_doors == dict_get_cell_doors(cd, n, uc, ur)
        x_doors == dict_get_cell_doors(cd, n, xc, xr)
        fail == [ok |-> FALSE, cells_dict |-> cd]
    IN  IF u_doors = <<>> THEN fail
        ELSE IF x_doors = <<>> THEN fail
        ELSE
        LET dir_uv == u_doors[(i0 % Len(u_doors)) + 1]
            v == get_neighbor_coords(tbl, uc, ur, dir_uv)
            dir_xy == x_doors[(i1 % Len(x_doors)) + 1]
            y == get_neighbor_coords(tbl, xc, xr, dir_xy)
            u == <<uc, ur>>
            x == <<xc, xr>>
        IN  IF Cardinality({u, v, x, y}) < 4 THEN fail
            ELSE
            LET dir_ux == get_direction(tbl, uc, ur, xc, xr)
                dir_vy == get_direction(tbl, v[1], v[2], y[1], y[2])
                dir_uy == get_direction(tbl, uc, ur, y[1], y[2])
                dir_vx == get_direction(tbl, v[1], v[2], xc, xr)
            IN  IF /\ dir_ux # -1 /\ dir_vy # -1
                   /\ ~dict_has_connection(cd, n, uc, ur, dir_ux)
                   /\ ~dict_has_connection(cd, n, v[1], v[2], dir_vy)
                THEN [ok |-> TRUE,
                      cells_dict |-> dict_rewire(cd, tbl, n,
                          rewire_calls(u, dir_uv, x, dir_xy, u, dir_ux, v, dir_vy))]
                ELSE IF /\ dir_uy # -1 /\ dir_vx # -1
                        /\ ~dict_has_connection(cd, n, uc, ur, dir_uy)
                        /\ ~dict_has_connection(cd, n, v[1], v[2], dir_vx)
                THEN [ok |-> TRUE,
                      cells_dict |-> dict_rewire(cd, tbl, n,
                          rewire_calls(u, dir_uv, x, dir_xy, u, dir_uy, v, dir_vx))]
                ELSE fail

\* the while-loop of the dict path of find_loops from one start cell: every
\* walk is kept, closed or not. fuel bounds the recursion of the model; the
\* loop marks a cell or breaks in every iteration
RECURSIVE dict_Walk(_, _, _, _, _, _, _, _)
dict_Walk(cd, tbl, n, curr, prev, visited, loop, fuel) ==
    IF fuel = 0 \/ curr \in visited THEN [visited |-> visited, loop |-> loop]
    ELSE
    LET vis1 == visited \cup {curr}
        loop1 == Append(loop, curr)
        doors == dict_get_cell_doors(cd, n, curr[1], curr[2])
    IN  IF doors = <<>> THEN [visited |-> vis1, loop |-> loop1]
        ELSE LET first == tbl[curr][doors[1]]
             IN  IF prev[1] # -1 /\ first = prev
                 THEN IF Len(doors) > 1
                      THEN dict_Walk(cd, tbl, n, tbl[curr][doors[2]], curr,
                                     vis1, loop1, fuel - 1)
                      ELSE [visited |-> vis1, loop |-> loop1]
                 ELSE dict_Walk(cd, tbl, n, first, curr, vis1, loop1, fuel - 1)

RECURSIVE dict_Scan(_, _, _, _, _, _)
dict_Scan(cd, tbl, n, k, visited, loops) ==
    IF k >= n * n THEN loops
    ELSE LET start == <<k \div n, k % n>>
         IN  IF start \in visited
             THEN dict_Scan(cd, tbl, n, k + 1, visited, loops)
             ELSE LET w == dict_Walk(cd, tbl, n, start, <<-1, -1>>, visited,
                                     <<>>, n * n + 1)
                  IN  dict_Scan(cd, tbl, n, k + 1, w.visited, Append(loops, w.loop))

\* find_loops with _use_array = False
dict_find_loops(cd, tbl, n) == dict_Scan(cd, tbl, n, 0, {}, <<>>)

\* the dump to_dict builds from cells_dict
dict_BuildDict(cd, n) == [cell \in Cells(n) |-> cd.list[cd.ref[cell]]]

-----------------------------------------------------------------------------
(* State after construction: grid = HexGrid(size) *)

\* op: the call; ok, ret, dump, raised: what it returned; cells, args: the
\* cells it sampled and the arguments it was given
NoCall == [op |-> "init", ok |-> FALSE, ret |-> None, cells |-> {},
           raised |-> FALSE, dump |-> NoDict, args |-> <<>>]

\* n0 remembers nswaps at the entry of the call
ScIdle == [pc |-> "idle", steps |-> 0, max_attempts |-> 0, attempt |-> 0,
           swaps |-> 0, n0 |-> 0]

\* the two request threads of SpecThreads. mpc, req, calls: position, request
\* fields and pending rewiring calls of the thread serving the mutating
\* request; opc: position of the thread serving state requests; snap, bsize:
\* the has_door snapshot its to_dict took and the size its build loop read;
\* dump: what its to_dict returned; larr, lsize, ltab: the array, size and
\* table dimension its find_loops was given; raised: its to_dict raised;
\* quiet: its request began after the mutating request had been answered
ThIdle == [mpc |-> "idle", req |-> <<>>, calls |-> <<>>,
           opc |-> "idle", snap |-> <<>>, bsize |-> 0, dump |-> NoDict,
           larr |-> <<>>, lsize |-> 0, ltab |-> 0, raised |-> FALSE,
           quiet |-> FALSE]

Init ==
    /\ size \in Sizes
    /\ neighbor_table = InitNeighborTable(size)
    /\ cells_array = reset_to_organized(size, "vertical")
    /\ dict_dirty = TRUE
    /\ cached_dict = NoDict
    /\ sc = ScIdle
    /\ last = NoCall
    /\ nswaps = 0
    /\ th = ThIdle
    /\ grid_dict = NoGrid

-----------------------------------------------------------------------------
(* Calls made one at a time on the grid (single-threaded use) *)

Idle == sc.pc = "idle" /\ th.mpc = "idle" /\ th.opc = "idle"

\* the lattice is within the explored distance of its last (re)build
Explored == nswaps < MaxSwaps

\* values of the 'size' field of a reset request: missing, a string that is
\* not a number, a JSON list, or an integer
SizeInputs ==
    {[kind |-> "missing", val |-> 0], [kind |-> "text", val |-> 0],
     [kind |-> "list", val |-> 0]}
    \cup {[kind |-> "int", val |-> k] :
              k \in {-1, 0} \cup (MinSize..(MaxSize + 1))}

PatternNames ==
    {"vertical", "diagonal_1", "diagonal_2", "concentric", "zigzag", "garbage"}

\* values of the 'pattern' field: missing or any string
PatternInputs == {None} \cup PatternNames

\* the size the reset route leaves for a given 'size' field
ResetSize(n, new_size) ==
    IF new_size.kind = "missing" \/ new_size.val = 0 THEN n
    ELSE IF new_size.kind = "text" THEN n
    ELSE IF new_size.val < MinSize THEN MinSize
    ELSE IF new_size.val > MaxSize THEN MaxSize
    ELSE new_size.val

\* int(new_size) raises TypeError, which the handler does not catch
IntRaisesTypeError(new_size) == new_size.kind = "list"

\* the reset route with a seeder that ORs its doors into the masks it finds
\* when the array is not replaced
Reset_merge(new_size, pattern) ==
    /\ Idle
    /\ IF IntRaisesTypeError(new_size)
       THEN /\ last' = [NoCall EXCEPT !.op = "reset_error", !.raised = TRUE]
            /\ UNCHANGED <<size, neighbor_table, cells_array, cached_dict, dict_dirty, nswaps>>
       ELSE /\ size' = ResetSize(size, new_size)
            /\ neighbor_table' = IF size' # size THEN InitNeighborTable(size') ELSE neighbor_table
            /\ cells_array' =
                 LET seeded == reset_to_organized(size', IF pattern = None THEN "vertical" ELSE pattern)
                 IN  IF size' # size THEN seeded
                     ELSE [cell \in Cells(size) |->
                              LET both == {d \in Dirs : TestBit(seeded[cell], d) \/ TestBit(cells_array[cell], d)}
                              IN CHOOSE m \in 0..63 : {d \in Dirs : TestBit(m, d)} = both]
            /\ cached_dict' = <<BuildDict(cells_array', size')>>
            /\ dict_dirty' = FALSE
            /\ last' = [NoCall EXCEPT !.op = "reset", !.ret = pattern]
            /\ nswaps' = 0
    /\ UNCHANGED <<grid_dict, sc, th>>

\* the /reset handler: resize if asked, re-seed, serialize. When int() raises
\* TypeError the handler is left before anything is written
Reset(new_size, pattern) ==
    /\ Idle
    /\ IF IntRaisesTypeError(new_size)
       THEN /\ last' = [NoCall EXCEPT !.op = "reset_error", !.raised = TRUE]
            /\ UNCHANGED <<size, neighbor_table, cells_array, cached_dict,
                           dict_dirty, nswaps>>
       ELSE /\ size' = ResetSize(size, new_size)
            /\ neighbor_table' = IF size' # size THEN InitNeighborTable(size')
                                 ELSE neighbor_table
            /\ cells_array' = reset_to_organized(size',
                                  IF pattern = None THEN "vertical" ELSE pattern)
            /\ cached_dict' = <<BuildDict(cells_array', size')>>
            /\ dict_dirty' = FALSE
            /\ last' = [NoCall EXCEPT !.op = "reset", !.ret = pattern]
            /\ nswaps' = 0
    /\ UNCHANGED <<grid_dict, sc, th>>

\* columns and rows np.random.randint(0, size) can give, within the sample
\* bound
RandCols(n) == {k \in 0..(n - 1) : k < SampleSpan \/ k = n - 1}

RandRows(n) == {0, n - 1}

\* one call of perform_swap_vectorized on the current grid: what it returns
SwapResult(uc, ur, xc, xr, i0, i1) ==
    perform_swap_vectorized(cells_array, neighbor_table, size,
                            uc, ur, xc, xr, i0, i1)

\* an attempt that marks the cache dirty whatever it returns
Attempt_always_dirty(res) ==
    /\ cells_array' = res.arr
    /\ dict_dirty' = TRUE
    /\ nswaps' = IF res.ok THEN nswaps + 1 ELSE nswaps

\* what the call leaves on the grid
Attempt(res) ==
    /\ cells_array' = res.arr
    /\ dict_dirty' = IF res.ok THEN TRUE ELSE dict_dirty
    /\ nswaps' = IF res.ok THEN nswaps + 1 ELSE nswaps

\* a swap attempt with the given random numbers
SwapAttempt(uc, ur, xc, xr, i0, i1) ==
    LET res == SwapResult(uc, ur, xc, xr, i0, i1)
    IN  /\ Idle
        /\ Attempt(res)
        /\ last' = [NoCall EXCEPT !.op = "swap", !.ok = res.ok,
                                  !.cells = {res.cells[i] : i \in DOMAIN res.cells},
                                  !.ret = res.pairing]
        /\ UNCHANGED <<grid_dict, size, neighbor_table, cached_dict, sc, th>>

Next ==
    \/ /\ Explored
       /\ \E new_size \in SizeInputs, pattern \in PatternInputs :
              Reset(new_size, pattern)
    \/ /\ Explored
       /\ \E uc, xc \in RandCols(size), ur, xr \in RandRows(size), i0, i1 \in 0..1 :
              SwapAttempt(uc, ur, xc, xr, i0, i1)

Spec == Init /\ [][Next]_vars

-----------------------------------------------------------------------------
(* HexGrid.scramble as a loop of attempts *)

\* np.random.randint(0, size, size=(max_attempts, 4)) raises ValueError for a
\* negative dimension
RandintRaises(max_attempts) == max_attempts < 0

\* values of the steps argument
StepInputs == (-1)..MaxSteps

\* scramble(steps) called on the grid just built (as benchmark_grid does):
\* entry, up to the first loop test; the call ends here when the random
\* batch cannot be drawn
ScrambleBegin(steps) ==
    /\ Idle
    /\ last.op = "init"
    /\ IF RandintRaises(steps * AttemptFactor)
       THEN /\ last' = [NoCall EXCEPT !.op = "scramble_error", !.raised = TRUE,
                                      !.ret = steps]
            /\ UNCHANGED sc
       ELSE /\ sc' = [pc |-> "loop", steps |-> steps,
                      max_attempts |-> steps * AttemptFactor, attempt |-> 0,
                      swaps |-> 0, n0 |-> nswaps]
            /\ last' = [NoCall EXCEPT !.op = "scramble_begin", !.ret = steps]
    /\ UNCHANGED <<grid_dict, size, cells_array, neighbor_table, dict_dirty, cached_dict,
                   nswaps, th>>

\* a loop test that lets one more success through
LoopContinues_late(s) == s.attempt < s.max_attempts /\ ~(s.swaps > s.steps)

\* the loop goes on: attempt is in range(max_attempts) and swaps < steps
LoopContinues(s) == s.attempt < s.max_attempts /\ ~(s.swaps >= s.steps)

\* one iteration of the scramble loop: one swap attempt
ScrambleAttempt(uc, ur, xc, xr, i0, i1) ==
    LET res == SwapResult(uc, ur, xc, xr, i0, i1)
    IN  /\ Attempt(res)
        /\ sc' = [sc EXCEPT !.attempt = @ + 1,
                            !.swaps = IF res.ok THEN @ + 1 ELSE @]
        /\ UNCHANGED <<grid_dict, size, neighbor_table, cached_dict, last, th>>

\* the body of the for-loop runs while the loop goes on
ScrambleLoop ==
    /\ sc.pc = "loop"
    /\ LoopContinues(sc)
    /\ \E uc, xc \in RandCols(size), ur, xr \in RandRows(size), i0, i1 \in 0..1 :
          ScrambleAttempt(uc, ur, xc, xr, i0, i1)

\* the loop ends: scramble returns swaps
ScrambleReturn ==
    /\ sc.pc = "loop"
    /\ ~LoopContinues(sc)
    /\ sc' = [sc EXCEPT !.pc = "idle"]
    /\ last' = [NoCall EXCEPT !.op = "scramble", !.ret = sc.swaps]
    /\ UNCHANGED <<grid_dict, size, cells_array, neighbor_table, dict_dirty, cached_dict,
                   nswaps, th>>

NextScramble ==
    \/ \E steps \in StepInputs : ScrambleBegin(steps)
    \/ ScrambleLoop
    \/ ScrambleReturn

\* a started call keeps running: the loop is not preempted for ever
ScrambleStep == ScrambleLoop \/ ScrambleReturn

SpecScramble == Init /\ [][NextScramble]_vars /\ WF_vars(ScrambleStep)

-----------------------------------------------------------------------------
(* Direct calls of the cell store and the serializer *)

\* to_dict(): the cached dump when clean, a freshly built one otherwise
ToDict ==
    /\ Idle
    /\ IF ~dict_dirty /\ cached_dict # NoDict
       THEN UNCHANGED <<cached_dict, dict_dirty>>
       ELSE /\ cached_dict' = <<BuildDict(cells_array, size)>>
            /\ dict_dirty' = FALSE
    /\ last' = [NoCall EXCEPT !.op = "to_dict", !.dump = cached_dict']
    /\ UNCHANGED <<grid_dict, size, cells_array, neighbor_table, sc, nswaps, th>>

\* arguments <<c, r, dir_idx>> given to direct add_connection and
\* remove_connection calls: in range (the first cell, and the last column
\* looking across the column wrap), one past the last column, and one before
\* the first column
EditArgs(n) == {<<0, 0, 0>>, <<n - 1, 0, 1>>, <<n, 0, 1>>, <<-1, 0, 2>>}

AddConnection(c, r, d) ==
    /\ Idle
    /\ LET res == add_connection(cells_array, neighbor_table, size, c, r, d)
       IN  /\ cells_array' = res.arr
           /\ dict_dirty' = IF res.raised THEN dict_dirty ELSE TRUE
           /\ last' = [NoCall EXCEPT !.op = "add_connection",
                                     !.raised = res.raised, !.args = <<c, r, d>>]
    /\ UNCHANGED <<grid_dict, size, neighbor_table, cached_dict, sc, nswaps, th>>

RemoveConnection(c, r, d) ==
    /\ Idle
    /\ LET res == remove_connection(cells_array, neighbor_table, size, c, r, d)
       IN  /\ cells_array' = res.arr
           /\ dict_dirty' = IF res.raised THEN dict_dirty ELSE TRUE
           /\ last' = [NoCall EXCEPT !.op = "remove_connection",
                                     !.raised = res.raised, !.args = <<c, r, d>>]
    /\ UNCHANGED <<grid_dict, size, neighbor_table, cached_dict, sc, nswaps, th>>

\* the reset requests that re-seed the lattice between direct calls: no
\* resize, the default pattern and two named ones
ApiResets == {[kind |-> "missing", val |-> 0]} \X {None, "diagonal_1", "concentric"}

NextApi ==
    \/ ToDict
    \/ \E q \in ApiResets : Reset(q[1], q[2])
    \/ \E a \in EditArgs(size) : AddConnection(a[1], a[2], a[3])
    \/ \E a \in EditArgs(size) : RemoveConnection(a[1], a[2], a[3])

SpecApi == Init /\ [][NextApi]_vars

-----------------------------------------------------------------------------
(* The route handlers on concurrent threads: one thread serves one mutating *)
(* request (/scramble or /reset), another serves /state requests one after *)
(* the other. The handlers take no lock, so a thread may be preempted       *)
(* between any two statements.                                              *)

\* side length of a square array
Dim(f) == CHOOSE n \in 0..(MaxSize + 1) : DOMAIN f = Cells(n)

\* np.zeros((n, n), dtype=np.uint8)
ZeroCells(n) == [cell \in Cells(n) |-> 0]

\* np.zeros((n, n, 6, 2), dtype=np.int16)
ZeroTable(n) == [cell \in Cells(n) |-> [d \in Dirs |-> <<0, 0>>]]

\* POST /scramble with the default steps = 1: entry of grid.scramble
ThScramble ==
    /\ th.mpc = "idle"
    /\ sc' = [pc |-> "loop", steps |-> 1, max_attempts |-> 1 * AttemptFactor,
              attempt |-> 0, swaps |-> 0, n0 |-> nswaps]
    /\ th' = [th EXCEPT !.mpc = "scramble"]
    /\ UNCHANGED <<grid_dict, size, cells_array, neighbor_table, dict_dirty, cached_dict,
                   last, nswaps>>

\* one loop iteration up to the first rewiring call: a failed attempt ends
\* the iteration, a successful one leaves its four calls to be made
ThSwapTest ==
    /\ th.mpc = "scramble"
    /\ LoopContinues(sc)
    /\ \E uc, xc \in RandCols(size), ur, xr \in RandRows(size), i0, i1 \in 0..1 :
          LET dec == swap_decision(cells_array, neighbor_table, size,
                                   uc, ur, xc, xr, i0, i1)
          IN  IF dec.ok
              THEN /\ th' = [th EXCEPT !.mpc = "rewire", !.calls = dec.calls]
                   /\ UNCHANGED sc
              ELSE /\ sc' = [sc EXCEPT !.attempt = @ + 1]
                   /\ UNCHANGED th
    /\ UNCHANGED <<grid_dict, size, cells_array, neighbor_table, dict_dirty, cached_dict,
                   last, nswaps>>

\* the next remove_connection or add_connection call of the swap; after the
\* fourth the swap returns True and the loop counts it
ThRewire ==
    /\ th.mpc = "rewire"
    /\ cells_array' = connection_call(cells_array, neighbor_table, size,
                                      Head(th.calls)).arr
    /\ dict_dirty' = TRUE
    /\ IF Len(th.calls) > 1
       THEN /\ th' = [th EXCEPT !.calls = Tail(@)]
            /\ UNCHANGED <<sc, nswaps>>
       ELSE /\ th' = [th EXCEPT !.calls = <<>>, !.mpc = "scramble"]
            /\ sc' = [sc EXCEPT !.attempt = @ + 1, !.swaps = @ + 1]
            /\ nswaps' = nswaps + 1
    /\ UNCHANGED <<grid_dict, size, neighbor_table, cached_dict, last>>

\* grid.scramble returns to the handler
ThScrambleReturn ==
    /\ th.mpc = "scramble"
    /\ ~LoopContinues(sc)
    /\ sc' = [sc EXCEPT !.pc = "idle"]
    /\ th' = [th EXCEPT !.mpc = "respond"]
    /\ UNCHANGED <<grid_dict, size, cells_array, neighbor_table, dict_dirty, cached_dict,
                   last, nswaps>>

\* POST /reset: the request fields are read and the size to set is computed
ThReset(new_size, pattern) ==
    /\ th.mpc = "idle"
    /\ LET n == ResetSize(size, new_size)
       IN  th' = [th EXCEPT
                    !.mpc = IF IntRaisesTypeError(new_size) THEN "done"
                            ELSE IF n # size THEN "set_size" ELSE "fill0",
                    !.req = [size |-> n,
                             pattern |-> IF pattern = None THEN "vertical"
                                         ELSE pattern]]
    /\ UNCHANGED <<grid_dict, size, cells_array, neighbor_table, dict_dirty, cached_dict,
                   sc, last, nswaps>>

\* grid.size = new_size
ThSetSize ==
    /\ th.mpc = "set_size"
    /\ size' = th.req.size
    /\ th' = [th EXCEPT !.mpc = "new_table"]
    /\ UNCHANGED <<grid_dict, cells_array, neighbor_table, dict_dirty, cached_dict,
                   sc, last, nswaps>>

\* grid.neighbor_table = np.zeros(...)
ThNewTable ==
    /\ th.mpc = "new_table"
    /\ neighbor_table' = ZeroTable(size)
    /\ th' = [th EXCEPT !.mpc = "new_cells"]
    /\ UNCHANGED <<grid_dict, size, cells_array, dict_dirty, cached_dict, sc, last, nswaps>>

\* grid.cells_array = np.zeros(...)
ThNewCells ==
    /\ th.mpc = "new_cells"
    /\ cells_array' = ZeroCells(size)
    /\ th' = [th EXCEPT !.mpc = "init_table"]
    /\ UNCHANGED <<grid_dict, size, neighbor_table, dict_dirty, cached_dict, sc, last,
                   nswaps>>

\* grid._init_neighbor_table()
ThInitTable ==
    /\ th.mpc = "init_table"
    /\ neighbor_table' = InitNeighborTable(size)
    /\ th' = [th EXCEPT !.mpc = "fill0"]
    /\ UNCHANGED <<grid_dict, size, cells_array, dict_dirty, cached_dict, sc, last, nswaps>>

\* reset_to_organized: self.cells_array.fill(0)
ThFill0 ==
    /\ th.mpc = "fill0"
    /\ cells_array' = [cell \in DOMAIN cells_array |-> 0]
    /\ th' = [th EXCEPT !.mpc = "seed"]
    /\ UNCHANGED <<grid_dict, size, neighbor_table, dict_dirty, cached_dict, sc, last,
                   nswaps>>

\* reset_to_organized: the pattern is written and the dirty flag set
ThSeed ==
    /\ th.mpc = "seed"
    /\ cells_array' = reset_to_organized(size, th.req.pattern)
    /\ dict_dirty' = TRUE
    /\ nswaps' = 0
    /\ th' = [th EXCEPT !.mpc = "respond"]
    /\ UNCHANGED <<grid_dict, size, neighbor_table, cached_dict, sc, last>>

\* the mutating handler builds its response (to_dict, find_loops) and the
\* request is answered
ThRespond ==
    /\ th.mpc = "respond"
    /\ IF ~dict_dirty /\ cached_dict # NoDict
       THEN UNCHANGED <<cached_dict, dict_dirty>>
       ELSE /\ cached_dict' = <<BuildDict(cells_array, size)>>
            /\ dict_dirty' = FALSE
    /\ th' = [th EXCEPT !.mpc = "done"]
    /\ UNCHANGED <<grid_dict, size, cells_array, neighbor_table, sc, last, nswaps>>

\* GET /state arrives
StBegin ==
    /\ th.opc = "idle"
    /\ th' = [th EXCEPT !.opc = "check", !.snap = <<>>, !.bsize = 0,
                        !.dump = NoDict, !.larr = <<>>, !.lsize = 0,
                        !.ltab = 0, !.raised = FALSE,
                        !.quiet = (th.mpc = "done")]
    /\ UNCHANGED <<grid_dict, size, cells_array, neighbor_table, dict_dirty, cached_dict,
                   sc, last, nswaps>>

\* to_dict: a clean cache is returned as it is
StCheck ==
    /\ th.opc = "check"
    /\ IF ~dict_dirty /\ cached_dict # NoDict
       THEN th' = [th EXCEPT !.opc = "find_loops", !.dump = cached_dict]
       ELSE th' = [th EXCEPT !.opc = "snapshot"]
    /\ UNCHANGED <<grid_dict, size, cells_array, neighbor_table, dict_dirty, cached_dict,
                   sc, last, nswaps>>

\* to_dict: has_door = (self.cells_array[None, :, :] & dir_masks) != 0
StSnapshot ==
    /\ th.opc = "snapshot"
    /\ th' = [th EXCEPT !.opc = "build", !.snap = <<cells_array>>]
    /\ UNCHANGED <<grid_dict, size, cells_array, neighbor_table, dict_dirty, cached_dict,
                   sc, last, nswaps>>

\* to_dict: the dump is built from has_door over range(self.size); an index
\* beyond the snapshot raises IndexError and the request fails
StBuild ==
    /\ th.opc = "build"
    /\ IF size > Dim(th.snap[1])
       THEN /\ cached_dict' = <<[cell \in {} |-> <<>>]>>
            /\ th' = [th EXCEPT !.opc = "idle", !.bsize = size, !.raised = TRUE]
       ELSE /\ cached_dict' = <<BuildDict(th.snap[1], size)>>
            /\ th' = [th EXCEPT !.opc = "clear", !.bsize = size]
    /\ UNCHANGED <<grid_dict, size, cells_array, neighbor_table, dict_dirty, sc, last,
                   nswaps>>

\* to_dict: self._dict_dirty = False
StClear ==
    /\ th.opc = "clear"
    /\ dict_dirty' = FALSE
    /\ th' = [th EXCEPT !.opc = "return"]
    /\ UNCHANGED <<grid_dict, size, cells_array, neighbor_table, cached_dict, sc, last,
                   nswaps>>

\* to_dict: return self._cached_dict
StReturn ==
    /\ th.opc = "return"
    /\ th' = [th EXCEPT !.opc = "find_loops", !.dump = cached_dict]
    /\ UNCHANGED <<grid_dict, size, cells_array, neighbor_table, dict_dirty, cached_dict,
                   sc, last, nswaps>>

\* find_loops is given self.cells_array, self.neighbor_table and self.size;
\* the response is sent
StFindLoops ==
    /\ th.opc = "find_loops"
    /\ th' = [th EXCEPT !.opc = "idle", !.larr = <<cells_array>>,
                        !.lsize = size, !.ltab = Dim(neighbor_table)]
    /\ UNCHANGED <<grid_dict, size, cells_array, neighbor_table, dict_dirty, cached_dict,
                   sc, last, nswaps>>

NextThreads ==
    \/ ThScramble
    \/ ThSwapTest
    \/ ThRewire
    \/ ThScrambleReturn
    \/ \E new_size \in SizeInputs, pattern \in PatternInputs :
          ThReset(new_size, pattern)
    \/ ThSetSize
    \/ ThNewTable
    \/ ThNewCells
    \/ ThInitTable
    \/ ThFill0
    \/ ThSeed
    \/ ThRespond
    \/ StBegin
    \/ StCheck
    \/ StSnapshot
    \/ StBuild
    \/ StClear
    \/ StReturn
    \/ StFindLoops

SpecThreads == Init /\ [][NextThreads]_vars

-----------------------------------------------------------------------------
(* find_loops as a function of the mask array: the array is any seeded     *)
(* pattern with three cells given arbitrary sample masks, so that cells    *)
(* with 0, 1, 2, 3 and 6 doors and doors without a mate occur              *)

\* sample values of a mask: no door, N, S, N+S, N+NE+S, NE+SW, SE+NW, all six
SampleMasks == {0, 1, 8, 9, 11, 18, 36, 63}

\* the cells whose masks are drawn from the samples: the first two cells of
\* column 0 and the first cell of the last column
SampleCells(n) == <<(<<0, 0>>), (<<0, 1>>), (<<n - 1, 0>>)>>

\* the mask arrays find_loops is applied to
MaskArrays(n) ==
    {[cell \in Cells(n) |->
         IF cell = SampleCells(n)[1] THEN m[1]
         ELSE IF cell = SampleCells(n)[2] THEN m[2]
         ELSE IF cell = SampleCells(n)[3] THEN m[3]
         ELSE reset_to_organized(n, p)[cell]] :
        p \in {"vertical", "diagonal_1", "diagonal_2", "concentric"},
        m \in SampleMasks \X SampleMasks \X SampleMasks}

InitLoops ==
    /\ size \in Sizes
    /\ neighbor_table = InitNeighborTable(size)
    /\ cells_array \in MaskArrays(size)
    /\ dict_dirty = TRUE
    /\ cached_dict = NoDict
    /\ sc = ScIdle
    /\ last = NoCall
    /\ nswaps = 0
    /\ th = ThIdle
    /\ grid_dict = NoGrid

\* grid.find_loops() on the array backend: the lists of _find_loops_numba
FindLoops ==
    /\ Idle
    /\ last.op = "init"
    /\ last' = [NoCall EXCEPT !.op = "find_loops",
                              !.ret = find_loops(cells_array, neighbor_table, size)]
    /\ UNCHANGED <<grid_dict, size, cells_array, neighbor_table, dict_dirty, cached_dict,
                   sc, nswaps, th>>

NextLoops == FindLoops

SpecLoops == InitLoops /\ [][NextLoops]_vars

-----------------------------------------------------------------------------
(* The two backends side by side, as validate_backend_equivalence runs     *)
(* them: one HexGrid with _use_array = True (the variables of the grid)    *)
(* and one with _use_array = False (grid_dict), built with the same size   *)
(* and given the same calls with the same random numbers                   *)

InitBackends ==
    /\ size \in Sizes
    /\ neighbor_table = InitNeighborTable(size)
    /\ cells_array = reset_to_organized(size, "vertical")
    /\ dict_dirty = TRUE
    /\ cached_dict = NoDict
    /\ sc = ScIdle
    /\ last = NoCall
    /\ nswaps = 0
    /\ th = ThIdle
    /\ grid_dict = NewDictGrid(size)

\* the seed patterns
SeedPatterns == {"vertical", "diagonal_1", "diagonal_2", "concentric"}

\* reset_to_organized(pattern) on both grids, as the first call of the run;
\* nswaps counts the calls that change connections, and bounds the run
BothReset(pattern) ==
    /\ last.op = "init"
    /\ cells_array' = reset_to_organized(size, pattern)
    /\ dict_dirty' = TRUE
    /\ grid_dict' = [grid_dict EXCEPT
                        !.cells_dict = dict_reset_to_organized(size, pattern),
                        !.dirty = TRUE]
    /\ nswaps' = 0
    /\ last' = [NoCall EXCEPT !.op = "both_reset", !.ret = pattern]
    /\ UNCHANGED <<size, neighbor_table, cached_dict, sc, th>>

\* in-range arguments <<c, r, dir_idx>> of the add and remove calls: those
\* of the validation script and one across the column wrap
BackendEditArgs(n) == {<<0, 0, 0>>, <<n - 1, 0, 1>>}

\* add_connection(c, r, d) on both grids
BothAdd(c, r, d) ==
    /\ LET res == dict_add_connection(grid_dict.cells_dict, neighbor_table, size, c, r, d)
       IN  grid_dict' = [grid_dict EXCEPT !.cells_dict = res.cells_dict,
                                          !.dirty = @ \/ res.dirtied]
    /\ cells_array' = add_connection(cells_array, neighbor_table, size, c, r, d).arr
    /\ dict_dirty' = TRUE
    /\ nswaps' = nswaps + 1
    /\ last' = [NoCall EXCEPT !.op = "both_add"]
    /\ UNCHANGED <<size, neighbor_table, cached_dict, sc, th>>

\* remove_connection(c, r, d) on both grids
BothRemove(c, r, d) ==
    /\ LET res == dict_remove_connection(grid_dict.cells_dict, neighbor_table, size, c, r, d)
       IN  grid_dict' = [grid_dict EXCEPT !.cells_dict = res.cells_dict,
                                          !.dirty = @ \/ res.dirtied]
    /\ cells_array' = remove_connection(cells_array, neighbor_table, size, c, r, d).arr
    /\ dict_dirty' = TRUE
    /\ nswaps' = nswaps + 1
    /\ last' = [NoCall EXCEPT !.op = "both_remove"]
    /\ UNCHANGED <<size, neighbor_table, cached_dict, sc, th>>

\* perform_swap_vectorized with the same random numbers on both grids
BothSwap(uc, ur, xc, xr, i0, i1) ==
    LET res == SwapResult(uc, ur, xc, xr, i0, i1)
        dres == dict_perform_swap_vectorized(grid_dict.cells_dict, neighbor_table,
                                             size, uc, ur, xc, xr, i0, i1)
    IN  /\ cells_array' = res.arr
        /\ dict_dirty' = IF res.ok THEN TRUE ELSE dict_dirty
        /\ grid_dict' = [grid_dict EXCEPT !.cells_dict = dres.cells_dict,
                                           !.dirty = @ \/ dres.ok]
        /\ nswaps' = nswaps + 1
        /\ last' = [NoCall EXCEPT !.op = "both_swap", !.ok = res.ok]
        /\ UNCHANGED <<size, neighbor_table, cached_dict, sc, th>>

\* what to_dict returns on the dict grid
dict_to_dict(g, n) ==
    IF ~g.dirty /\ g.cached # NoDict THEN g.cached[1]
    ELSE dict_BuildDict(g.cells_dict, n)

\* what to_dict returns on the array grid
to_dict ==
    IF ~dict_dirty /\ cached_dict # NoDict THEN cached_dict[1]
    ELSE BuildDict(cells_array, size)

\* to_dict() on both grids, when it has a dump to build
BothToDict ==
    /\ dict_dirty \/ cached_dict = NoDict
    /\ cached_dict' = <<to_dict>>
    /\ dict_dirty' = FALSE
    /\ grid_dict' = [grid_dict EXCEPT !.cached = <<dict_to_dict(grid_dict, size)>>,
                                       !.dirty = FALSE]
    /\ last' = [NoCall EXCEPT !.op = "both_to_dict"]
    /\ UNCHANGED <<size, cells_array, neighbor_table, sc, nswaps, th>>

NextBackends ==
    \/ \E pattern \in SeedPatterns : BothReset(pattern)
    \/ /\ Explored
       /\ \E a \in BackendEditArgs(size) : BothAdd(a[1], a[2], a[3])
    \/ /\ Explored
       /\ \E a \in BackendEditArgs(size) : BothRemove(a[1], a[2], a[3])
    \/ /\ Explored
       /\ \E xc \in RandCols(size), xr \in RandRows(size), i0, i1 \in 0..1 :
              BothSwap(0, 0, xc, xr, i0, i1)
    \/ BothToDict

SpecBackends == InitBackends /\ [][NextBackends]_vars

-----------------------------------------------------------------------------
(* A lattice re-seeded once, on its own size, and then scrambled by swap   *)
(* attempts                                                                *)

NextSwaps ==
    \/ /\ last.op = "init"
       /\ \E pattern \in SeedPatterns :
              Reset([kind |-> "missing", val |-> 0], pattern)
    \/ /\ Explored
       /\ \E uc, xc \in RandCols(size), ur, xr \in RandRows(size), i0, i1 \in 0..1 :
              SwapAttempt(uc, ur, xc, xr, i0, i1)

SpecSwaps == Init /\ [][NextSwaps]_vars

-----------------------------------------------------------------------------
(* Properties of the lattice *)

\* every cell's door mask has exactly 2 bits set
DegreeTwo(arr, n) == \A cell \in Cells(n) : PopCount(arr[cell]) = 2

\* has(u, d) = has(neighbor(u, d), opp(d)) for every cell and direction
Symmetric(arr, tbl, n) ==
    \A cell \in Cells(n), d \in Dirs :
        TestBit(arr[cell], d) = TestBit(arr[tbl[cell][d]], Opp(d))

\* number of positions of the lists of loops that hold the cell
Occurrences(loops, cell) ==
    Cardinality(UNION {{<<k, i>> : i \in {j \in DOMAIN loops[k] : loops[k][j] = cell}} :
                          k \in DOMAIN loops})

\* bits of a that are not bits of b
BitsLost(a, b) == {d \in 0..7 : TestBit(a, d) /\ ~TestBit(b, d)}

\* C1: after reset and after any sequence of swap attempts, on every lattice
\* size (odd or even) and seed pattern, every cell has exactly 2 doors
C1_DegreeTwo == DegreeTwo(cells_array, size)

\* C2: in every state reached by reset and swap attempts, bit d of a cell
\* equals bit (d+3) mod 6 of its neighbor in direction d
C2_Symmetry == Symmetric(cells_array, neighbor_table, size)

\* C3: for every size, cell and direction the neighbor table satisfies
\* neighbor(neighbor(c, r, d), (d+3) mod 6) = (c, r)
C3_NeighborRoundTrip ==
    \A cell \in Cells(size), d \in Dirs :
        neighbor_table[neighbor_table[cell][d]][Opp(d)] = cell

\* C4: whenever every cell has exactly 2 doors, the lists find_loops returns
\* hold each of the size*size cells exactly once in total
C4_LoopsPartition ==
    DegreeTwo(cells_array, size) =>
        LET loops == find_loops(cells_array, neighbor_table, size)
        IN  \A cell \in Cells(size) : Occurrences(loops, cell) = 1

\* C5: a successful swap changes the masks of exactly the four sampled cells
\* u, v, x, y, each losing exactly one bit and gaining exactly one bit, and
\* leaves the mask of every other cell unchanged
C5_SwapFrame ==
    [][(last'.op = "swap" /\ last'.ok) =>
          /\ Cardinality(last'.cells) = 4
          /\ \A cell \in last'.cells :
                /\ Cardinality(BitsLost(cells_array[cell], cells_array'[cell])) = 1
                /\ Cardinality(BitsLost(cells_array'[cell], cells_array[cell])) = 1
          /\ \A cell \in Cells(size) \ last'.cells :
                cells_array'[cell] = cells_array[cell]]_vars

\* door names of the pattern table
N == 0
NE == 1
SE == 2
S == 3
SW == 4
NW == 5

\* the mask whose set bits are the directions of D
MaskOf(D) == CHOOSE m \in 0..63 : {d \in Dirs : TestBit(m, d)} = D

\* the doors the pattern table lists for a cell of column c, the zig-zag row
\* being listed under the given name
ListedDoors(zz, p, c, n) ==
    IF p = "vertical" THEN {N, S}
    ELSE IF p = "diagonal_1" THEN {NE, SW}
    ELSE IF p = "diagonal_2" THEN {SE, NW}
    ELSE IF p = zz
         THEN IF n % 2 = 1 /\ c = n - 1 THEN {SE, NW}
              ELSE IF c % 2 = 0 THEN {NE, NW}
              ELSE {SE, SW}
    ELSE {}

\* C6: scramble(n) with n >= 0 makes at most 20*n attempts and counts at most
\* n successes, makes no attempt and no mutation once n successes are
\* counted, returns the number of successful attempts, and always returns
C6_ScrambleBound ==
    /\ [](sc.pc = "loop" => sc.attempt <= 20 * sc.steps /\ sc.swaps <= sc.steps)
    /\ [](last.op = "scramble" =>
            last.ret = nswaps - sc.n0 /\ last.ret \in 0..sc.steps)
    /\ [][sc.pc = "loop" /\ sc.swaps >= sc.steps =>
            cells_array' = cells_array /\ sc'.attempt = sc.attempt]_vars
    /\ (sc.pc = "loop" ~> sc.pc = "idle")

\* a call that returned its full count after failed and successful attempts
C6_Witness ==
    last.op = "scramble" /\ sc.steps >= 1 /\ last.ret = sc.steps
        /\ sc.attempt > sc.steps

\* C7: whenever the dirty flag is false and a dump is cached, the cached dump
\* (what to_dict returns) equals a fresh serialization of the mask array
C7_CacheCoherent ==
    (~dict_dirty /\ cached_dict # NoDict) =>
        cached_dict[1] = BuildDict(cells_array, size)

\* the arrays the calls of the running or last state request were given
ObservedArrays == {th.snap[i] : i \in DOMAIN th.snap} \cup
                  {th.larr[i] : i \in DOMAIN th.larr}

\* C8: with state, scramble and reset requests on concurrent threads, no
\* to_dict or find_loops call of a state request is given a mask array with
\* a cell of degree other than 2, nor a cell array whose dimensions disagree
\* with the size it reads or with the neighbor table
C8_AtomicToObservers ==
    /\ \A arr \in ObservedArrays : \A cell \in DOMAIN arr : PopCount(arr[cell]) = 2
    /\ (th.snap # <<>> /\ th.bsize # 0) => Dim(th.snap[1]) = th.bsize
    /\ th.larr # <<>> => Dim(th.larr[1]) = th.lsize /\ th.ltab = th.lsize

\* C9: a to_dict result produced by a state request that began after the
\* mutating request was answered equals the lattice that request left
C9_NoStaleDump ==
    (th.quiet /\ th.dump # NoDict) =>
        th.dump[1] = BuildDict(cells_array, size)


VerticalConfiguration ==
    /\ \A cell \in Cells(size) : cells_array[cell] = MaskOf({N, S})
    /\ LET loops == find_loops(cells_array, neighbor_table, size)
       IN  /\ Len(loops) = size
           /\ \A k \in 1..size :
                 /\ Len(loops[k]) = size
                 /\ {loops[k][i] : i \in 1..size} = {k - 1} \X (0..(size - 1))

Clamp(s) == IF s < MinSize THEN MinSize ELSE IF s > MaxSize THEN MaxSize ELSE s

\* C12: every reset request with an integer size s leaves size = max(5,
\* min(200, s)), also for 0 and negative s; with a missing or non-convertible
\* size it leaves the size unchanged; in every case it succeeds and re-seeds
\* the pattern
C12_SizeClamp ==
    [][\A new_size \in SizeInputs, pattern \in PatternInputs :
          Reset(new_size, pattern) =>
              /\ IF new_size.kind = "int" THEN size' = Clamp(new_size.val)
                 ELSE size' = size
              /\ ~last'.raised
              /\ cells_array' = reset_to_organized(size',
                                    IF pattern = None THEN "vertical" ELSE pattern)]_vars

\* C13: scramble with steps < 0 behaves as scramble(0): no attempt, the mask
\* array and the dirty flag unchanged, 0 returned, no error raised
C13_NegativeSteps ==
    [][\A steps \in StepInputs :
          (steps < 0 /\ ScrambleBegin(steps)) =>
              /\ ~last'.raised
              /\ cells_array' = cells_array
              /\ dict_dirty' = dict_dirty
              /\ nswaps' = nswaps]_vars

\* C14: after a reset with pattern vertical, on every size, find_loops
\* returns exactly size cycles, each of length size, one per column and made
\* of all the cells of that column
C14_VerticalCycles ==
    (last.op = "reset" /\ last.ret = "vertical") =>
        LET loops == find_loops(cells_array, neighbor_table, size)
            ColumnOf(loop) == {loop[i][1] : i \in DOMAIN loop}
        IN  /\ Len(loops) = size
            /\ \A k \in DOMAIN loops :
                  /\ Len(loops[k]) = size
                  /\ Cardinality({loops[k][i] : i \in DOMAIN loops[k]}) = size
                  /\ Cardinality(ColumnOf(loops[k])) = 1
            /\ \A c \in 0..(size - 1) :
                  \E k \in DOMAIN loops : ColumnOf(loops[k]) = {c}

\* a vertical reset of an odd lattice whose last column is walked upwards
\* from row 0 through the row wrap
C14_Witness ==
    /\ last.op = "reset" /\ last.ret = "vertical" /\ size % 2 = 1
    /\ LET loops == find_loops(cells_array, neighbor_table, size)
       IN  /\ Len(loops) = size
           /\ loops[size][1] = <<size - 1, 0>>
           /\ loops[size][2] = <<size - 1, size - 1>>

\* arr is the mask array of a freshly constructed lattice of size n seeded
\* with pattern p (a missing or unknown p seeds vertical)
IsFreshArray(arr, n, p) ==
    LET q == IF p \in {"vertical", "diagonal_1", "diagonal_2", "concentric"}
             THEN p ELSE "vertical"
    IN  /\ DOMAIN arr = Cells(n)
        /\ \A cell \in Cells(n) :
              {d \in Dirs : TestBit(arr[cell], d)} = ListedDoors("concentric", q, cell[1], n)

\* C15: the array a reset leaves depends on (size, pattern) only: from every
\* reachable state, after swaps or right after an identical reset, it is the
\* array of a fresh lattice of that size and pattern, so the same reset
\* applied twice in a row gives identical arrays
C15_ResetFunctional ==
    [][last'.op = "reset" =>
          /\ IsFreshArray(cells_array', size', last'.ret)
          /\ (last.op = "reset" /\ last.ret = last'.ret /\ size' = size) =>
                 cells_array' = cells_array]_vars

\* a reset has replaced the array of an odd lattice by the diagonal_2 array,
\* which no construction and no vertical lattice holds
C15_Witness ==
    /\ last.op = "reset" /\ last.ret = "diagonal_2" /\ size % 2 = 1
    /\ nswaps = 0
    /\ IsFreshArray(cells_array, size, "diagonal_2")
    /\ ~IsFreshArray(cells_array, size, "vertical")

\* C16: a direct add_connection(c, r, d) with in-range coordinates sets bit
\* d of (c, r) and bit (d+3) mod 6 of neighbor(c, r, d) and changes no other
\* bit; remove_connection clears exactly those two bits; each sets the dirty
\* flag, raises nothing, leaves the same array when repeated, and
\* has_connection(c, r, d) is true right after add, false right after remove
C16_EditContract ==
    [][(/\ last'.op \in {"add_connection", "remove_connection"}
        /\ last'.args[1] \in 0..(size - 1)
        /\ last'.args[2] \in 0..(size - 1)) =>
          LET c == last'.args[1]
              r == last'.args[2]
              d == last'.args[3]
              set == last'.op = "add_connection"
              mate == get_neighbor_coords(neighbor_table, c, r, d)
              written == {<<(<<c, r>>), d>>, <<mate, Opp(d)>>}
              again == IF set
                       THEN add_connection(cells_array', neighbor_table, size, c, r, d)
                       ELSE remove_connection(cells_array', neighbor_table, size, c, r, d)
          IN  /\ ~last'.raised
              /\ \A cell \in Cells(size), b \in 0..7 :
                    TestBit(cells_array'[cell], b) =
                        IF <<cell, b>> \in written THEN set
                        ELSE TestBit(cells_array[cell], b)
              /\ dict_dirty'
              /\ has_connection(cells_array', size, c, r, d) = set
              /\ ~again.raised /\ again.arr = cells_array']_vars

\* an in-range add across the column wrap of an odd lattice has given the
\* cell of the last column a third door and its mate the opposite one
C16_Witness ==
    /\ last.op = "add_connection" /\ last.args = <<size - 1, 0, 1>>
    /\ size % 2 = 1 /\ ~last.raised /\ dict_dirty
    /\ PopCount(cells_array[<<size - 1, 0>>]) = 3
    /\ TestBit(cells_array[get_neighbor_coords(neighbor_table, size - 1, 0, 1)], 4)

\* C17: add_connection, remove_connection, has_connection and
\* get_cell_doors given coordinates outside [0, size) behave exactly as the
\* same call on the toroidally wrapped coordinates: an add or remove raises
\* nothing, leaves the array and the dirty flag of the wrapped call, and so
\* never ends with only one of the two mated bits written
C17_WrappedCoordinates ==
    [][last'.op \in {"add_connection", "remove_connection"} =>
          LET c == last'.args[1]
              r == last'.args[2]
              d == last'.args[3]
              wc == Wrap(c, size)
              wr == Wrap(r, size)
              wrapped == IF last'.op = "add_connection"
                         THEN add_connection(cells_array, neighbor_table, size, wc, wr, d)
                         ELSE remove_connection(cells_array, neighbor_table, size, wc, wr, d)
          IN  /\ ~last'.raised
              /\ cells_array' = wrapped.arr
              /\ dict_dirty'
              /\ has_connection(cells_array', size, c, r, d)
                    = has_connection(cells_array', size, wc, wr, d)
              /\ get_cell_doors(cells_array', size, c, r)
                    = get_cell_doors(cells_array', size, wc, wr)]_vars

Door(arr, tbl, p, q) == \E d \in Dirs : tbl[p][d] = q /\ TestBit(arr[p], d)

\* the edge p-q exists: each of the two cells has its door to the other
EdgeExists(arr, tbl, p, q) == Door(arr, tbl, p, q) /\ Door(arr, tbl, q, p)

\* the edge p-q does not exist: neither cell has a door to the other
EdgeAbsent(arr, tbl, p, q) == ~Door(arr, tbl, p, q) /\ ~Door(arr, tbl, q, p)

\* p and q are lattice neighbors: each lists the other in its table row
Adjacent(tbl, p, q) ==
    /\ \E d \in Dirs : tbl[p][d] = q
    /\ \E d \in Dirs : tbl[q][d] = p

\* what C19 says of a successful attempt on array arr that sampled u, x,
\* found v, y, took the given pairing and left array new
SwapOutcome(arr, new, tbl, u, v, x, y, pairing) ==
    LET a == IF pairing = "A" THEN x ELSE y
        b == IF pairing = "A" THEN y ELSE x
    IN  /\ Cardinality({u, v, x, y}) = 4
        /\ Adjacent(tbl, u, a) /\ Adjacent(tbl, v, b)
        /\ EdgeAbsent(arr, tbl, u, a) /\ EdgeAbsent(arr, tbl, v, b)
        /\ EdgeExists(new, tbl, u, a) /\ EdgeExists(new, tbl, v, b)
        /\ EdgeAbsent(new, tbl, u, v) /\ EdgeAbsent(new, tbl, x, y)
        /\ pairing = "B" =>
              ~(/\ Adjacent(tbl, u, x) /\ Adjacent(tbl, v, y)
                /\ EdgeAbsent(arr, tbl, u, x) /\ EdgeAbsent(arr, tbl, v, y))

\* C19: a swap attempt succeeds only on four pairwise distinct cells u, v,
\* x, y whose chosen new edges join lattice neighbors and did not exist
\* before; after a success both new edges exist and the old edges u-v and
\* x-y do not; the pairing (u,y),(v,x) is taken only when (u,x),(v,y) was
\* not applicable
C19_SwapConditions ==
    [][(last'.op = "swap" /\ last'.ok) =>
          \A u \in last'.cells, x \in last'.cells, i0 \in 0..1, i1 \in 0..1 :
              LET dec == swap_decision(cells_array, neighbor_table, size,
                                       u[1], u[2], x[1], x[2], i0, i1)
              IN  (/\ dec.ok
                   /\ dec.pairing = last'.ret
                   /\ {dec.cells[i] : i \in DOMAIN dec.cells} = last'.cells
                   /\ rewire(cells_array, neighbor_table, size, dec.calls) = cells_array') =>
                      SwapOutcome(cells_array, cells_array', neighbor_table,
                                  dec.cells[1], dec.cells[2], dec.cells[3],
                                  dec.cells[4], dec.pairing)]_vars

\* C20: whenever every cell has degree 2, every list find_loops returns is
\* a simple closed cycle: pairwise distinct cells, at least 3 of them, each
\* consecutive pair joined by a door set on both cells, and a door from the
\* last cell to the first
C20_SimpleCycles ==
    DegreeTwo(cells_array, size) =>
        LET loops == find_loops(cells_array, neighbor_table, size)
        IN  \A k \in DOMAIN loops :
              LET loop == loops[k]
              IN  /\ Cardinality({loop[i] : i \in DOMAIN loop}) = Len(loop)
                  /\ Len(loop) >= 3
                  /\ \A i \in 1..(Len(loop) - 1) :
                        EdgeExists(cells_array, neighbor_table, loop[i], loop[i + 1])
                  /\ Door(cells_array, neighbor_table, loop[Len(loop)], loop[1])

\* the cells a mask array gives 0, 1 or at least 3 doors, and the doors
\* whose mate bit is missing on the table neighbor
DoorCount(arr, cell) == Cardinality({d \in Dirs : TestBit(arr[cell], d)})

MateMissing(arr, tbl, n) ==
    \E cell \in Cells(n), d \in Dirs :
        TestBit(arr[cell], d) /\ ~TestBit(arr[tbl[cell][d]], Opp(d))

\* C21: on every mask array, degenerate ones included, find_loops ends
\* without error: every walk of the scan leaves its for-loop by a break
\* within size*size + 1 iterations, records at most size*size cells, all of
\* them cells of the lattice, and the scan makes at most size*size walks
C21_FindLoopsTerminates ==
    LET walks == ScanWalks(cells_array, neighbor_table, size, 0, {}, <<>>)
    IN  /\ Len(walks) <= size * size
        /\ \A i \in DOMAIN walks :
              /\ walks[i].left > 0
              /\ Len(walks[i].loop) <= size * size
              /\ \A j \in DOMAIN walks[i].loop : walks[i].loop[j] \in Cells(size)
        /\ last.op = "find_loops" =>
              last.ret = SelectSeq([i \in DOMAIN walks |-> walks[i].loop],
                                   LAMBDA l : Len(l) > 0)

\* find_loops has returned on an array with a cell without doors, a dead
\* end, a cell with more than two doors and a door without its mate
C21_Witness ==
    /\ last.op = "find_loops"
    /\ \E a, b, c \in Cells(size) :
          /\ DoorCount(cells_array, a) = 0
          /\ DoorCount(cells_array, b) = 1
          /\ DoorCount(cells_array, c) >= 3
    /\ MateMissing(cells_array, neighbor_table, size)

\* C22: on every mask array, degenerate fragments included (a cell without
\* doors, a walk that reaches a dead end, a walk that runs into a visited
\* cell other than its start), every cell of the lattice appears in exactly
\* one list returned by find_loops
C22_FragmentsReturned ==
    last.op = "find_loops" =>
        \A cell \in Cells(size) : Occurrences(last.ret, cell) = 1

\* position of a cell in the scan of the [col][row] array
ScanPos(cell, n) == cell[1] * n + cell[2]

\* the neighbor through the lowest-index door of the cell that does not lead
\* to any cell of avoid
LowestDoorNeighbor(arr, tbl, cell, avoid) ==
    LET ds == {d \in Dirs : TestBit(arr[cell], d) /\ tbl[cell][d] \notin avoid}
    IN  tbl[cell][CHOOSE d \in ds : \A e \in ds : d <= e]

\* C23: find_loops lists its cycles in a fixed order: by increasing scan
\* position of their first cell (column 0 row by row, then column 1, ...);
\* the first cell of a list is its earliest cell in the scan, the second is
\* the neighbor through the lowest-index door of the first, and every later
\* cell is reached through the lowest-index door that does not lead back to
\* the previous cell
C23_FixedOrder ==
    last.op = "find_loops" =>
        LET loops == last.ret
        IN  /\ loops = find_loops(cells_array, neighbor_table, size)
            /\ \A k \in 1..(Len(loops) - 1) :
                  ScanPos(loops[k][1], size) < ScanPos(loops[k + 1][1], size)
            /\ \A k \in DOMAIN loops :
                  LET loop == loops[k]
                  IN  /\ \A i \in DOMAIN loop :
                            ScanPos(loop[1], size) <= ScanPos(loop[i], size)
                      /\ Len(loop) >= 2 =>
                            loop[2] = LowestDoorNeighbor(cells_array, neighbor_table,
                                                         loop[1], {})
                      /\ \A i \in 2..(Len(loop) - 1) :
                            loop[i + 1] = LowestDoorNeighbor(cells_array, neighbor_table,
                                                             loop[i], {loop[i - 1]})

\* find_loops has returned several lists, one of which passes through a
\* cell with more than two doors and leaves it by its lowest free door
C23_Witness ==
    /\ last.op = "find_loops" /\ Len(last.ret) >= 2
    /\ \E k \in DOMAIN last.ret :
          \E i \in 2..(Len(last.ret[k]) - 1) :
              /\ DoorCount(cells_array, last.ret[k][i]) >= 3
              /\ last.ret[k][i + 1] =
                    LowestDoorNeighbor(cells_array, neighbor_table,
                                       last.ret[k][i], {last.ret[k][i - 1]})

\* the lengths of the lists of loops, with their multiplicities
LengthCount(loops, len) == Cardinality({k \in DOMAIN loops : Len(loops[k]) = len})

\* C24: given the same reset and the same add, remove and swap calls with
\* the same random numbers, the dict backend and the array backend report
\* the same door list for every cell, the same has_connection answers, equal
\* to_dict dumps, and find_loops results with the same number of loops and
\* the same loop lengths
C24_BackendsAgree ==
    LET cd == grid_dict.cells_dict
        loops_dict == dict_find_loops(cd, neighbor_table, size)
        loops_array == find_loops(cells_array, neighbor_table, size)
    IN  /\ \A cell \in Cells(size) :
              /\ dict_get_cell_doors(cd, size, cell[1], cell[2])
                    = get_cell_doors(cells_array, size, cell[1], cell[2])
              /\ \A d \in Dirs :
                    dict_has_connection(cd, size, cell[1], cell[2], d)
                      = has_connection(cells_array, size, cell[1], cell[2], d)
        /\ dict_to_dict(grid_dict, size) = to_dict
        /\ Len(loops_dict) = Len(loops_array)
        /\ \A len \in 1..(size * size) :
              LengthCount(loops_dict, len) = LengthCount(loops_array, len)

\* even lattice sizes, up to a few past the sizes of the runs
EvenSizes == {n \in MinSize..(MaxSize + 4) : n % 2 = 0}

\* the loops are n \div 2 lists of 2 * n cells each, and every cell of the
\* lattice is in exactly one of them
IsDiagonalPartition(loops, n) ==
    /\ Len(loops) = n \div 2
    /\ \A k \in DOMAIN loops : Len(loops[k]) = 2 * n
    /\ \A cell \in Cells(n) : Occurrences(loops, cell) = 1

\* C25: on a lattice of size 6 seeded with diagonal_1, find_loops returns
\* cycles that partition the 36 cells, with lengths 12, 12 and 12; on every
\* even size n the NE/SW pattern gives n / 2 cycles of length 2 * n each
C25_DiagonalCycles ==
    (/\ last.op = "find_loops"
     /\ size % 2 = 0
     /\ cells_array = reset_to_organized(size, "diagonal_1")) =>
        /\ IsDiagonalPartition(last.ret, size)
        /\ size = 6 =>
              /\ Len(last.ret) = 3
              /\ \A k \in 1..3 : Len(last.ret[k]) = 12
        /\ \A n \in EvenSizes :
              IsDiagonalPartition(find_loops(reset_to_organized(n, "diagonal_1"),
                                             InitNeighborTable(n), n), n)

\* find_loops has run on the size-6 lattice seeded with diagonal_1 and has
\* returned three cycles
C25_Witness ==
    /\ last.op = "find_loops"
    /\ size = 6
    /\ cells_array = reset_to_organized(6, "diagonal_1")
    /\ Len(last.ret) = 3
    /\ Len(last.ret[1]) = 12

\* lattice sizes, up to a few past the sizes of the runs
TableSizes == MinSize..(MaxSize + 4)

\* the six neighbors of every cell are cells of the lattice, differ from the
\* cell and from one another
SixNeighbors(tbl, n) ==
    \A cell \in Cells(n) :
        /\ \A d \in Dirs : tbl[cell][d] \in Cells(n) /\ tbl[cell][d] # cell
        /\ \A d, e \in Dirs : d # e => tbl[cell][d] # tbl[cell][e]

\* get_direction answers the one direction that leads from the first cell to
\* the second, or -1 when none does
DirectionUnique(tbl, n) ==
    \A u, v \in Cells(n) :
        LET d == get_direction(tbl, u[1], u[2], v[1], v[2])
            leading == {e \in Dirs : tbl[u][e] = v}
        IN  IF leading = {} THEN d = -1 ELSE leading = {d}

\* C26: for every size from 5 up and every cell, the six neighbors of the
\* neighbor table are in range, pairwise distinct and differ from the cell;
\* so no cell has two doors to the same neighbor, and get_direction returns
\* the unique direction to the second cell, or -1 when there is none
C26_SixDistinctNeighbors ==
    /\ SixNeighbors(neighbor_table, size)
    /\ \A cell \in Cells(size), d, e \in Dirs :
          (d # e /\ TestBit(cells_array[cell], d) /\ TestBit(cells_array[cell], e))
              => neighbor_table[cell][d] # neighbor_table[cell][e]
    /\ (last.op = "init" /\ cells_array = reset_to_organized(size, "vertical")) =>
          /\ DirectionUnique(neighbor_table, size)
          /\ \A n \in TableSizes :
                /\ SixNeighbors(InitNeighborTable(n), n)
                /\ DirectionUnique(InitNeighborTable(n), n)

\* a freshly built lattice of the smallest size where get_direction finds a
\* neighbor across the column wrap and answers -1 for a cell two columns away
C26_Witness ==
    /\ last.op = "init"
    /\ size = MinSize
    /\ cells_array = reset_to_organized(size, "vertical")
    /\ get_direction(neighbor_table, 0, 0, size - 1, 0) \in Dirs
    /\ get_direction(neighbor_table, 0, 0, 2, 2) = -1

\* stepping in direction d and back in the opposite direction returns to the
\* cell, and the cells are neighbors of each other or not at all
SymmetricTable(tbl, n) ==
    /\ \A cell \in Cells(n), d \in Dirs : tbl[tbl[cell][d]][Opp(d)] = cell
    /\ \A u, v \in Cells(n) :
          (\E d \in Dirs : tbl[u][d] = v) <=> (\E d \in Dirs : tbl[v][d] = u)

\* C27: on every even lattice size the neighbor relation is symmetric:
\* neighbor(neighbor(c, r, d), (d+3) mod 6) = (c, r) for all cells and
\* directions, so v is a neighbor of u exactly when u is a neighbor of v,
\* also across the wrap between column size-1 and column 0
C27_EvenSizesSymmetric ==
    /\ size % 2 = 0 =>
          \A cell \in Cells(size), d \in Dirs :
              neighbor_table[neighbor_table[cell][d]][Opp(d)] = cell
    /\ (last.op = "init" /\ cells_array = reset_to_organized(size, "vertical")) =>
          /\ size % 2 = 0 => SymmetricTable(neighbor_table, size)
          /\ \A n \in EvenSizes : SymmetricTable(InitNeighborTable(n), n)

\* a freshly built even lattice whose cell (size-1, 0) has (0, 0) as its NE
\* neighbor across the column wrap, and is the SW neighbor of (0, 0)
C27_Witness ==
    /\ last.op = "init"
    /\ size % 2 = 0
    /\ cells_array = reset_to_organized(size, "vertical")
    /\ neighbor_table[<<size - 1, 0>>][1] = <<0, 0>>
    /\ neighbor_table[<<0, 0>>][4] = <<size - 1, 0>>

\* number of doors of the whole lattice
DoorTotal(arr, n) ==
    Cardinality({p \in Cells(n) \X (0..7) : TestBit(arr[p[1]], p[2])})

\* C28: on every even lattice size, every state reached from a reset with
\* any seed pattern by any sequence of swap attempts has exactly 2 bits in
\* every mask, has bit d of a cell equal to bit (d+3) mod 6 of its neighbor
\* in direction d, and has 2 * size * size bits set in total
C28_EvenSizesInvariant ==
    size % 2 = 0 =>
        /\ \A cell \in Cells(size) : PopCount(cells_array[cell]) = 2
        /\ \A cell \in Cells(size), d \in Dirs :
              TestBit(cells_array[cell], d)
                = TestBit(cells_array[neighbor_table[cell][d]], Opp(d))
        /\ DoorTotal(cells_array, size) = 2 * size * size

\* an even lattice after as many successful swaps as the runs explore, the
\* last one having rewired four cells
C28_Witness ==
    /\ size % 2 = 0
    /\ last.op = "swap" /\ last.ok
    /\ Cardinality(last.cells) = 4
    /\ nswaps = MaxSwaps
    /\ \A p \in SeedPatterns : cells_array # reset_to_organized(size, p)

====
